---- MODULE Spec2Model ----
(***************************************************************************)
(* A model of forward_mpc_agent.py: the DynamicsNetwork (forward, update,  *)
(* set_scalers, get_scaled) and the MPCAgent (mpc_action, get_prediction,  *)
(* swarm_loss, train, correct, optimal_policy).                            *)
(*                                                                         *)
(* Abstractions.  The network's parameters are a version number: the       *)
(* number of optimizer steps applied to them.  A float is an integer (a    *)
(* fixed-point number where a fraction matters) or NaN.  The random        *)
(* generators are counters; what is drawn from torch's generator is a      *)
(* nondeterministic choice.  A tensor's shape is a sequence of naturals.   *)
(***************************************************************************)
EXTENDS Integers, Sequences, FiniteSets, TLC

(***************************************************************************)
(* Bounds of the model                                                     *)
(***************************************************************************)
MaxData == 23        \* size of the largest dataset handed to train
MaxEpochs == 2       \* epochs is drawn from 0..MaxEpochs
MaxCorr == 2         \* correction_iters is drawn from 0..MaxCorr
MaxParams == 1       \* train starts only while fewer optimizer steps were taken
RngStates == 3       \* number of states of the numpy generator

Agents == {1, 2}
Seeds == {1, 2}
DataSizes == {1, 12, MaxData}
BatchSizes == {4, 32}
NTests == {0, 2, 100}

(***************************************************************************)
(* Floats                                                                  *)
(***************************************************************************)
\* A float is an integer, NaN or +inf.  NaN is the result of 0/0 and of every
\* operation on a NaN; +inf the result of x/0 for x > 0.
NaN == -999999
Inf == 999999

IsNum(x) == x # NaN /\ x # Inf

FAdd(x, y) ==
    IF x = NaN \/ y = NaN THEN NaN
    ELSE IF x = Inf \/ y = Inf THEN Inf
    ELSE x + y

\* 0 * inf is NaN
FMul(x, y) ==
    IF x = NaN \/ y = NaN THEN NaN
    ELSE IF x = Inf \/ y = Inf THEN (IF x = 0 \/ y = 0 THEN NaN ELSE Inf)
    ELSE x * y

\* x / y for y >= 0
FDiv(x, y) ==
    IF x = NaN \/ y = NaN THEN NaN
    ELSE IF y = 0 THEN (IF x = 0 THEN NaN ELSE Inf)
    ELSE IF x = Inf THEN Inf
    ELSE x \div y

FAbs(x) == IF IsNum(x) /\ x < 0 THEN -x ELSE x

\* x < y as the hardware compares: false when either is NaN
FLess(x, y) == x # NaN /\ y # NaN /\ x < y

RECURSIVE SumSeq(_)
SumSeq(s) == IF s = <<>> THEN 0 ELSE FAdd(Head(s), SumSeq(Tail(s)))

\* tensor.mean(): the mean of no element is NaN
Mean(s) == IF s = <<>> THEN NaN ELSE FDiv(SumSeq(s), Len(s))

Range(s) == {s[k] : k \in 1..Len(s)}

VARIABLES
    seed,       \* agent -> MPCAgent.seed
    trained,    \* agent -> DynamicsNetwork.trained
    scalers,    \* agent -> input_scaler and output_scaler are fitted (not None)
    params,     \* agent -> version of the network's parameters
    cached,     \* agent -> MPCAgent.state, a point, or <<>> for None
    neighbors,  \* agent -> MPCAgent.neighbors, a set of agents
    np_rng,     \* state of numpy's global generator
    pc,         \* "idle", or "train" inside a train call
    tr,         \* the frame of the train call in progress
    plan,       \* the frame of the mpc_action call in progress
    ret,        \* what the last call returned or raised
    split,      \* agent -> the partition of the agent's last train call
    shp,        \* the operands and the result of the last forward call on shapes
    scl         \* the fitted scalers and the last batch scaled and unscaled with them

vars == <<seed, trained, scalers, params, cached, neighbors, np_rng, pc, tr, plan, ret,
          split, shp, scl>>

NoFrame == [agent |-> 0]
NoRet == [op |-> "none"]
NoShape == [op |-> "none"]
NoScale == [op |-> "none"]
NoSplit == [n |-> 0]
Running == [op |-> "running"]

(***************************************************************************)
(* DynamicsNetwork.__init__ and MPCAgent.__init__                          *)
(***************************************************************************)
\* the agents in A are constructed with a seed in S; the caller has seeded
\* numpy's generator
Construct(A, S) ==
    /\ seed \in [A -> S]
    /\ trained = [a \in A |-> FALSE]
    /\ scalers = [a \in A |-> FALSE]
    /\ params = [a \in A |-> 0]
    /\ cached = [a \in A |-> <<>>]
    /\ neighbors = [a \in A |-> {}]
    /\ np_rng \in 0..(RngStates - 1)
    /\ pc = "idle"
    /\ tr = NoFrame
    /\ plan = NoFrame
    /\ ret = NoRet
    /\ split = [a \in A |-> NoSplit]
    /\ shp = NoShape
    /\ scl = NoScale

\* one agent, as the main program constructs (with --seed 1)
Init == Construct({1}, {1})

\* several agents, each a possible neighbor of the others
InitSwarm == Construct(Agents, Seeds)

\* the agents constructed
Live == DOMAIN seed

\* what a failed call must leave alone
Snapshot(a) == [params |-> params[a], trained |-> trained[a], cached |-> cached[a]]

(***************************************************************************)
(* DynamicsNetwork.set_scalers, get_scaled                                 *)
(***************************************************************************)
SetScalers(a) ==
    /\ pc = "idle"
    /\ scalers' = [scalers EXCEPT ![a] = TRUE]
    /\ ret' = [op |-> "set_scalers", agent |-> a, ok |-> TRUE]
    /\ UNCHANGED <<seed, trained, params, cached, neighbors, np_rng, pc, tr, plan, split, shp, scl>>

\* input_scaler.transform / output_scaler.transform on None raises
GetScaled(a, n) ==
    /\ pc = "idle"
    /\ ret' = [op |-> "get_scaled", agent |-> a, ok |-> scalers[a], n |-> n,
               fitted |-> scalers[a], pre |-> Snapshot(a)]
    /\ UNCHANGED <<seed, trained, scalers, params, cached, neighbors, np_rng, pc, tr, plan, split, shp, scl>>

(***************************************************************************)
(* The libraries' generators                                               *)
(***************************************************************************)
\* a permutation of 1..n that the generator state rs determines
Permutation(rs, n) == [k \in 1..n |-> ((k - 1 + rs) % n) + 1]

\* np.random.shuffle(idx): permutes idx in place as the global generator says
Shuffle(idx, rng) ==
    [k \in 1..Len(idx) |-> idx[Permutation(rng + 1, Len(idx))[k]]]

NextRng(rng) == (rng + 1) % RngStates

\* a draw from numpy's global generator by the caller (np.random.rand, normal)
NpRandomDraw ==
    /\ pc = "idle"
    /\ np_rng' = NextRng(np_rng)
    /\ UNCHANGED <<seed, trained, scalers, params, cached, neighbors, pc, tr, plan, ret, split, shp, scl>>

\* the variant train_test_split(..., random_state=None), which draws the
\* permutation from numpy's global generator
SplitRandomStateGlobal(a) == np_rng

\* the generator that train_test_split draws the partition from
SplitRandomState(a) == seed[a]

\* sklearn's train_test_split(test_size=0.1, random_state=rs) on n examples:
\* n_test = ceil(0.1 n), n_train = n - n_test, the first n_test elements of a
\* permutation drawn from rs are held out; an empty training set is a ValueError
NTest(n) == (n + 9) \div 10

TrainTestSplit(n, rs) ==
    LET perm == Permutation(rs, n)
        nt == NTest(n)
    IN  [ok |-> n - nt > 0,
         test |-> [k \in 1..nt |-> perm[k]],
         train |-> [k \in 1..(n - nt) |-> perm[nt + k]]]

(***************************************************************************)
(* DynamicsNetwork.forward, on shapes                                      *)
(***************************************************************************)
StateDim == 2        \* mpc_action unpacks init, goal and states.T into x and y
ActionDim == 1       \* the table of optimal_policy pairs one action with one effect

\* a 1-D tensor t becomes t[:, None]
Unsqueeze1D(s) == IF Len(s) = 1 THEN <<s[1], 1>> ELSE s

\* torch.cat([state, action], dim=-1) followed by the Sequential whose first
\* layer is Linear(sd + ad, hidden) and whose last is Linear(hidden, sd)
ForwardShape(sd, ad, state, action) ==
    LET s == Unsqueeze1D(state)
        a == Unsqueeze1D(action)
        catOk == Len(s) = 2 /\ Len(a) = 2 /\ s[1] = a[1]
        cat == <<s[1], s[2] + a[2]>>
    IN  IF ~catOk THEN [ok |-> FALSE, err |-> "cat", shape |-> <<>>]
        ELSE IF cat[2] # sd + ad THEN [ok |-> FALSE, err |-> "linear", shape |-> <<>>]
        ELSE [ok |-> TRUE, err |-> "", shape |-> <<cat[1], sd>>]

(***************************************************************************)
(* DynamicsNetwork.update                                                  *)
(***************************************************************************)
\* the squared error of example e under the parameters of version p, summed
\* over the state dimensions: some function of both, one-to-one in e
ExampleLoss(p, e) == IF p % 2 = 0 THEN e ELSE MaxData + 2 - e

\* update(batch) returns the per-example losses computed before the step ...
UpdateLosses(p, batch) == [k \in 1..Len(batch) |-> ExampleLoss(p, batch[k])]

\* the variant that takes two optimizer steps per call
UpdateParamsTwice(p) == p + 2

\* ... and takes one optimizer step (also on an empty batch: zero_grad,
\* backward and step all run)
UpdateParams(p) == p + 1

(***************************************************************************)
(* MPCAgent.correct                                                        *)
(***************************************************************************)
\* int(batch_size / 10)
WorstCount(batch_size) == batch_size \div 10

\* torch.topk(loss, k)[1]: the positions in loss of its k largest entries,
\* largest first
RECURSIVE TopK(_, _, _)
TopK(loss, k, taken) ==
    IF k = 0 THEN <<>>
    ELSE LET cand == (1..Len(loss)) \ taken
             best == CHOOSE m \in cand : \A o \in cand :
                         loss[o] < loss[m] \/ (loss[o] = loss[m] /\ m <= o)
         IN  <<best>> \o TopK(loss, k - 1, taken \cup {best})

\* one correct call on the batch with the running loss, from parameters p.
\* loss.squeeze() of a one-element loss is a 0-d tensor: topk then yields a
\* 0-d index, states[worst_idx] is one 1-D example, and update -> forward
\* takes the 1-D path.
Correct(p, batch, loss) ==
    LET k == WorstCount(Len(batch))
    IN  IF k > Len(loss)
        THEN [ok |-> FALSE, err |-> "topk", p |-> p, loss |-> loss, worst |-> <<>>]
        ELSE LET worst_idx == TopK(loss, k, {})
                 worst == [m \in 1..k |-> batch[worst_idx[m]]]
             IN  IF Len(loss) = 1 /\ ~ForwardShape(StateDim, ActionDim, <<StateDim>>, <<ActionDim>>).ok
                 THEN [ok |-> FALSE, err |-> "forward", p |-> p, loss |-> loss, worst |-> worst]
                 ELSE [ok |-> TRUE, err |-> "", p |-> UpdateParams(p),
                       loss |-> UpdateLosses(p, worst), worst |-> worst]

\* for _ in range(correction_iters): training_loss = self.correct(...)
\* rounds: the loss each round was given, the examples it chose, the loss it
\* returned and the parameters before and after it
RECURSIVE CorrectLoop(_, _, _, _, _)
CorrectLoop(p, batch, loss, iters, rounds) ==
    IF iters = 0 THEN [ok |-> TRUE, err |-> "", p |-> p, loss |-> loss, rounds |-> rounds]
    ELSE LET c == Correct(p, batch, loss)
             r == [given |-> loss, worst |-> c.worst, ok |-> c.ok, loss |-> c.loss,
                   before |-> p, after |-> c.p]
         IN  IF ~c.ok
             THEN [ok |-> FALSE, err |-> c.err, p |-> c.p, loss |-> c.loss,
                   rounds |-> Append(rounds, r)]
             ELSE CorrectLoop(c.p, batch, c.loss, iters - 1, Append(rounds, r))

(***************************************************************************)
(* Units of the values handed to and returned by the scalers               *)
(***************************************************************************)
\* A batch is in physical units (as loaded) or in normalized units (after
\* the transform of a fitted scaler); transforming a normalized batch or
\* inverting a physical one gives values in neither.
\* scaler.transform
ScaleUnits(u) == IF u = "physical" THEN "normalized" ELSE "scaled twice"

\* scaler.inverse_transform
UnscaleUnits(u) == IF u = "normalized" THEN "physical" ELSE "unscaled twice"

\* get_prediction(states, actions, scale_input) on states in units u: the
\* network maps its input to a next state in the units of the input (with
\* delta, states_delta_scaled + states), which is then inverse-transformed
PredictionUnits(u, scale_input) == UnscaleUnits(IF scale_input THEN ScaleUnits(u) ELSE u)

\* the units of the dataset handed to train: the caller that has fitted the
\* scalers trains on the scaled data (lines 371-378)
DataUnits(fitted) == IF fitted THEN ScaleUnits("physical") ELSE "physical"

(***************************************************************************)
(* MPCAgent.train                                                          *)
(***************************************************************************)
\* n_batches = len(train_states) / batch_size, plus one if not whole
\* the variant without the "+ 1" for the short final batch
NBatchesFloor(n_train, batch_size) == n_train \div batch_size

NBatches(n_train, batch_size) ==
    IF n_train % batch_size # 0 THEN (n_train \div batch_size) + 1
    ELSE n_train \div batch_size

\* test_interval = epochs * n_batches // n_tests, 1 if that is 0
TestInterval(epochs, n_batches, n_tests) ==
    LET t == (epochs * n_batches) \div n_tests
    IN  IF t = 0 THEN 1 ELSE t

\* the variant (i + 1) % test_interval == 0, measuring after every
\* test_interval-th batch
IsCheckpointAfter(i, test_interval) == (i + 1) % test_interval = 0

\* i % test_interval == 0
IsCheckpoint(i, test_interval) == i % test_interval = 0

\* train_states[j*batch_size:(j+1)*batch_size]
BatchSlice(train, j, batch_size) ==
    LET lo == j * batch_size + 1
        hi == IF (j + 1) * batch_size < Len(train) THEN (j + 1) * batch_size ELSE Len(train)
    IN  IF lo > hi THEN <<>> ELSE SubSeq(train, lo, hi)

\* lines 212-228: the split, the counters
TrainStart(a, n, batch_size, epochs, correction_iters, n_tests) ==
    /\ pc = "idle"
    /\ params[a] < MaxParams
    /\ LET parts == TrainTestSplit(n, SplitRandomState(a))
           n_batches == NBatches(Len(parts.train), batch_size)
           failed == [op |-> "train", agent |-> a, ok |-> FALSE,
                      fitted |-> scalers[a], pre |-> Snapshot(a)]
       IN  IF ~parts.ok
           THEN /\ ret' = failed @@ [err |-> "ValueError"]
                /\ UNCHANGED <<pc, tr, split>>
           ELSE /\ split' = [split EXCEPT ![a] =
                                 [n |-> n, test |-> parts.test, train |-> parts.train]]
                /\ IF n_tests = 0
                   THEN /\ ret' = failed @@ [err |-> "ZeroDivisionError"]
                        /\ UNCHANGED <<pc, tr>>
                   ELSE /\ pc' = "train"
                        /\ tr' = [agent |-> a, n |-> n, batch_size |-> batch_size,
                                  epochs |-> epochs, correction_iters |-> correction_iters,
                                  n_tests |-> n_tests, fitted |-> scalers[a],
                                  pre |-> Snapshot(a),
                                  test |-> parts.test, train |-> parts.train,
                                  idx |-> [k \in 1..Len(parts.train) |-> k],
                                  n_batches |-> n_batches,
                                  test_interval |-> TestInterval(epochs, n_batches, n_tests),
                                  i |-> 0, ep |-> 0, j |-> 0,
                                  training_losses |-> <<>>, test_losses |-> <<>>,
                                  test_idx |-> <<>>,
                                  swept |-> <<>>, rounds |-> <<>>, steps |-> <<>>,
                                  eval_units |-> <<>>]
                        /\ ret' = Running
    /\ UNCHANGED <<seed, trained, scalers, params, cached, neighbors, np_rng, plan, shp, scl>>

\* one iteration of the inner loop (lines 233-258), with the shuffle of lines
\* 230-231 before the first batch of an epoch
TrainBatch ==
    /\ pc = "train"
    /\ tr.ep < tr.epochs
    /\ LET a == tr.agent
           first == tr.j = 0
           idx1 == IF first THEN Shuffle(tr.idx, np_rng) ELSE tr.idx
           train1 == IF first THEN [k \in 1..Len(tr.train) |-> tr.train[idx1[k]]] ELSE tr.train
           batch == BatchSlice(train1, tr.j, tr.batch_size)
           p0 == params[a]
           loss0 == UpdateLosses(p0, batch)
           cor == CorrectLoop(UpdateParams(p0), batch, loss0, tr.correction_iters, <<>>)
           mean == Mean(cor.loss)
           check == IsCheckpoint(tr.i, tr.test_interval)
           last == tr.j + 1 = tr.n_batches
           swept1 == Append(IF first THEN <<>> ELSE tr.swept, batch)
           failed == [op |-> "train", agent |-> a, ok |-> FALSE,
                      fitted |-> tr.fitted, pre |-> tr.pre]
       IN  /\ np_rng' = IF first THEN NextRng(np_rng) ELSE np_rng
           /\ params' = [params EXCEPT ![a] = cor.p]
           /\ IF ~cor.ok
              THEN \* states[worst_idx] or update raised inside correct
                   /\ pc' = "idle"
                   /\ tr' = NoFrame
                   /\ ret' = failed @@ [err |-> "RuntimeError"]
              ELSE IF check /\ ~scalers[a]
              THEN \* get_prediction: self.model.output_scaler is None
                   /\ pc' = "idle"
                   /\ tr' = NoFrame
                   /\ ret' = failed @@ [err |-> "AttributeError"]
              ELSE /\ pc' = "train"
                   /\ tr' = [tr EXCEPT
                         !.idx = idx1, !.train = train1,
                         !.training_losses = Append(@, mean),
                         !.test_losses = IF check
                             THEN Append(@, Mean(UpdateLosses(cor.p, tr.test))) ELSE @,
                         !.test_idx = IF check THEN Append(@, tr.i) ELSE @,
                         !.eval_units = IF check
                             THEN Append(@, [pred |-> PredictionUnits(DataUnits(tr.fitted), FALSE),
                                             target |-> DataUnits(tr.fitted)])
                             ELSE @,
                         !.i = @ + 1,
                         !.j = IF last THEN 0 ELSE @ + 1,
                         !.ep = IF last THEN @ + 1 ELSE @,
                         !.swept = swept1,
                         !.rounds = cor.rounds,
                         !.steps = Append(@, cor.p - p0)]
                   /\ UNCHANGED ret
    /\ UNCHANGED <<seed, trained, scalers, cached, neighbors, plan, split, shp, scl>>

\* lines 260-261
TrainReturn ==
    /\ pc = "train"
    /\ tr.ep = tr.epochs
    /\ trained' = [trained EXCEPT ![tr.agent] = TRUE]
    /\ pc' = "idle"
    /\ tr' = NoFrame
    /\ ret' = [op |-> "train", agent |-> tr.agent, n |-> tr.n, batch_size |-> tr.batch_size,
               epochs |-> tr.epochs, correction_iters |-> tr.correction_iters,
               n_tests |-> tr.n_tests, fitted |-> tr.fitted, pre |-> tr.pre,
               ok |-> TRUE, err |-> "", n_train |-> Len(tr.train),
               training_losses |-> tr.training_losses,
               test_losses |-> tr.test_losses, test_idx |-> tr.test_idx]
    /\ UNCHANGED <<seed, scalers, params, cached, neighbors, np_rng, plan, split, shp, scl>>

(***************************************************************************)
(* Geometry of the planner, in fixed point                                 *)
(***************************************************************************)
Scale == 10          \* a length l is the integer floor(Scale * l)

StateRange == <<0, 2>>       \* state_range: (lower, upper), scalars
ActionRange == <<-1, 2>>     \* action_range: (lower, upper), scalars

\* the points inside state_range
Grid == (StateRange[1]..StateRange[2]) \X (StateRange[1]..StateRange[2])

Sub(p, q) == <<p[1] - q[1], p[2] - q[2]>>
Dot(p, q) == p[1] * q[1] + p[2] * q[2]

\* floor(Scale * sqrt(n)) for n the squared length of a difference of two
\* points of the grid, or of points one unit off it
MaxSq == 2 * (StateRange[2] - StateRange[1] + 1) * (StateRange[2] - StateRange[1] + 1)
SqrtTable ==
    [n \in 0..MaxSq |->
        CHOOSE r \in 0..(Scale * (MaxSq + 1)) :
            r * r <= Scale * Scale * n /\ Scale * Scale * n < (r + 1) * (r + 1)]

\* v.norm()
Norm(v) == SqrtTable[Dot(v, v)]

\* the variant that clamps to an upper bound one unit too high
ClampStateWide(p, range) ==
    <<IF p[1] < range[1] THEN range[1] ELSE IF p[1] > range[2] + 1 THEN range[2] + 1 ELSE p[1],
      IF p[2] < range[1] THEN range[1] ELSE IF p[2] > range[2] + 1 THEN range[2] + 1 ELSE p[2]>>

\* torch.clamp(x, lo, hi) of one coordinate, and of a state
Clamp1(x, lo, hi) == IF x < lo THEN lo ELSE IF x > hi THEN hi ELSE x
ClampState(p, range) == <<Clamp1(p[1], range[1], range[2]), Clamp1(p[2], range[1], range[2])>>

\* torch.arccos on [-1, 1], by the chord through (1, 0), (0, pi/2), (-1, pi)
ArcCos(c) == IF c = NaN THEN NaN ELSE ((Scale - c) * 157) \div 100

(***************************************************************************)
(* MPCAgent.get_prediction                                                 *)
(***************************************************************************)
\* What the network computes is not modelled: the model draws, for each
\* forward call, one of these behaviours (Dropout is active in every call, so
\* two calls with the same parameters and inputs can differ): a step along
\* the diagonal, or a step three times as long along x, which leaves the
\* state range.
Behaviours == {"step", "far"}

\* the next state predicted for state p and action u (before any clamp)
Predict(m, p, u) ==
    IF m = "step" THEN <<p[1] + u[1], p[2] + u[1]>>
    ELSE <<p[1] + 3 * u[1], p[2]>>

\* get_prediction(states, actions, scale_input): get_scaled needs the input
\* scaler when scale_input, inverse_transform needs the output scaler
PredictionFails(a, scale_input) == ~scalers[a]

\* a call of get_prediction by the caller on a batch of n rows
GetPrediction(a, n, scale_input) ==
    /\ pc = "idle"
    /\ LET out == ForwardShape(StateDim, ActionDim, <<n, StateDim>>, <<n, ActionDim>>)
       IN  ret' = [op |-> "get_prediction", agent |-> a, n |-> n,
                   ok |-> ~PredictionFails(a, scale_input) /\ out.ok,
                   shape |-> IF PredictionFails(a, scale_input) THEN <<>> ELSE out.shape,
                   fitted |-> scalers[a], pre |-> Snapshot(a)]
    /\ UNCHANGED <<seed, trained, scalers, params, cached, neighbors, np_rng, pc, tr, plan, split, shp, scl>>

(***************************************************************************)
(* MPCAgent.swarm_loss                                                     *)
(***************************************************************************)
RECURSIVE SumOver(_, _)
SumOver(S, f) ==
    IF S = {} THEN 0
    ELSE LET x == CHOOSE y \in S : TRUE IN FAdd(f[x], SumOver(S \ {x}, f))

\* the variant that measures the distance to the planning agent's own state
NeighborMeanSelf(a, p) ==
    IF neighbors[a] = {} THEN NaN
    ELSE FDiv(SumOver(neighbors[a], [b \in neighbors[a] |-> Norm(Sub(p, cached[a]))]),
              Cardinality(neighbors[a]))

\* neighbor_dists.mean(dim=0)[k]: the mean over the neighbors of the distance
\* from sample k to the neighbor's cached state; NaN without neighbors
NeighborMean(a, p) ==
    IF neighbors[a] = {} THEN NaN
    ELSE FDiv(SumOver(neighbors[a], [b \in neighbors[a] |-> Norm(Sub(p, cached[b]))]),
              Cardinality(neighbors[a]))

\* torch.tile(neighbor.state, ...) with neighbor.state None raises
SwarmFails(a) == \E b \in neighbors[a] : cached[b] = <<>>

\* swarm_loss(states, goals)[k], states a sequence of points
SwarmLoss(a, states, goal, k) ==
    LET goal_term == [j \in 1..Len(states) |-> Norm(Sub(goal, states[j]))]
    IN  FDiv(FMul(NeighborMean(a, states[k]), Mean(goal_term)), Norm(goal))

(***************************************************************************)
(* MPCAgent.mpc_action                                                     *)
(***************************************************************************)
\* the variant of a draw that is not confined to action_range
ActionValuesUnbounded == {ActionRange[1] - 1, ActionRange[2] + 1}

\* the actions uniform_(*action_range) can draw, each of ActionDim components
ActionValues == {ActionRange[1], ActionRange[2] - 1}
Actions == [1..ActionDim -> ActionValues]

\* all_losses[i][k] for the clamped states of step i (lines 159-174)
StepLoss(a, states, k, init, goal, swarm, w) ==
    LET p == states[k]
        vec_to_goal == Sub(goal, init)
        vecs_to_goal == Sub(goal, p)
        perp_denom == Norm(vec_to_goal)
        dist_loss == Norm(vecs_to_goal)
        cross == (goal[1] - init[1]) * (init[2] - p[2]) - (init[1] - p[1]) * (goal[2] - init[2])
        perp_loss == FDiv(FAbs(cross) * Scale * Scale, perp_denom)
        \* optimal_dot @ actual_dot: both are vectors divided by their norm
        cos == FDiv(Dot(vec_to_goal, vecs_to_goal) * Scale * Scale * Scale,
                    perp_denom * dist_loss)
        angle_loss == ArcCos(IF cos = NaN THEN NaN ELSE Clamp1(cos, -Scale, Scale))
        forward_loss == FAbs(FDiv(Dot(vec_to_goal, vecs_to_goal) * Scale * Scale, perp_denom))
        swarm_loss == IF swarm THEN SwarmLoss(a, states, goal, k) ELSE 0
    IN  FAdd(FAdd(FAdd(FAdd(dist_loss, FMul(w.forward, forward_loss)),
                       FMul(w.perp, perp_loss)),
                  FMul(w.angle, angle_loss)),
             FMul(w.swarm, swarm_loss))

\* all_losses.sum(dim=0)
Totals(all_losses, n_samples) ==
    [k \in 1..n_samples |-> SumSeq([i \in 1..Len(all_losses) |-> all_losses[i][k]])]

\* tensor.argmin(): the first NaN if there is one, else the first minimum
ArgMin(t) ==
    IF \E k \in 1..Len(t) : t[k] = NaN
    THEN CHOOSE k \in 1..Len(t) : t[k] = NaN /\ \A j \in 1..(k - 1) : t[j] # NaN
    ELSE CHOOSE k \in 1..Len(t) :
             /\ \A j \in 1..Len(t) : t[k] <= t[j]
             /\ \A j \in 1..(k - 1) : t[j] # t[k]

\* lines 176-177, for the frame of a call whose loop has ended
BestIdx(f) == ArgMin(Totals(f.all_losses, f.n_samples))
ReturnedAction(f) == f.all_actions[1][BestIdx(f)]

\* lines 140-151: the state is cached, the actions are drawn
MpcStart(a, state, init, goal, n_steps, n_samples, swarm, w) ==
    /\ pc = "idle"
    /\ pc' = "mpc"
    /\ cached' = [cached EXCEPT ![a] = state]
    /\ \E all_actions \in [1..n_steps -> [1..n_samples -> Actions]] :
           plan' = [agent |-> a, state |-> state, init |-> init, goal |-> goal,
                    n_steps |-> n_steps, n_samples |-> n_samples, swarm |-> swarm, w |-> w,
                    pre |-> Snapshot(a), others |-> [b \in Live \ {a} |-> cached[b]],
                    all_actions |-> all_actions,
                    states |-> [k \in 1..n_samples |-> state],
                    i |-> 0, fed |-> <<>>, raw |-> <<>>, used |-> <<>>, all_losses |-> <<>>]
    /\ ret' = Running
    /\ UNCHANGED <<seed, trained, scalers, params, neighbors, np_rng, tr, split, shp, scl>>

\* one iteration of the loop of lines 153-174
MpcStep ==
    /\ pc = "mpc"
    /\ plan.i < plan.n_steps
    /\ LET a == plan.agent
           failed == [op |-> "mpc_action", ok |-> FALSE]
       IN  IF PredictionFails(a, TRUE)
           THEN /\ pc' = "idle"
                /\ plan' = NoFrame
                /\ ret' = failed @@ [err |-> "AttributeError"]
           ELSE IF plan.swarm /\ SwarmFails(a)
           THEN /\ pc' = "idle"
                /\ plan' = NoFrame
                /\ ret' = failed @@ [err |-> "TypeError"]
           ELSE \E m \in Behaviours :
                LET actions == plan.all_actions[plan.i + 1]
                    raw == [k \in 1..plan.n_samples |-> Predict(m, plan.states[k], actions[k])]
                    states == [k \in 1..plan.n_samples |-> ClampState(raw[k], StateRange)]
                    losses == [k \in 1..plan.n_samples |->
                                 StepLoss(a, states, k, plan.init, plan.goal, plan.swarm, plan.w)]
                IN  /\ pc' = "mpc"
                    /\ plan' = [plan EXCEPT !.i = @ + 1, !.states = states,
                                            !.fed = Append(@, plan.states),
                                            !.raw = Append(@, raw),
                                            !.used = Append(@, states),
                                            !.all_losses = Append(@, losses)]
                    /\ UNCHANGED ret
    /\ UNCHANGED <<seed, trained, scalers, params, cached, neighbors, np_rng, tr, split, shp, scl>>

\* lines 176-177
MpcReturn ==
    /\ pc = "mpc"
    /\ plan.i = plan.n_steps
    /\ pc' = "idle"
    /\ plan' = NoFrame
    /\ ret' = [op |-> "mpc_action", ok |-> TRUE, action |-> ReturnedAction(plan)]
    /\ UNCHANGED <<seed, trained, scalers, params, cached, neighbors, np_rng, tr, split, shp, scl>>

\* the weights: forward_weight, perp_weight, angle_weight default to 0
Weights(g) == [forward |-> g, perp |-> g, angle |-> g, swarm |-> 1]

\* the caller appends b to a.neighbors
AddNeighbor(a, b) ==
    /\ pc = "idle"
    /\ a # b
    /\ b \notin neighbors[a]
    /\ neighbors' = [neighbors EXCEPT ![a] = @ \cup {b}]
    /\ UNCHANGED <<seed, trained, scalers, params, cached, np_rng, pc, tr, plan, ret, split, shp, scl>>

(***************************************************************************)
(* MPCAgent.optimal_policy                                                 *)
(***************************************************************************)
\* a table is a sequence of rows <<action, effect>>
Tables == { << <<-1, -1>>, <<0, 0>>, <<1, 1>> >>, << <<1, 1>> >> }

Abs(x) == IF x < 0 THEN -x ELSE x

\* diff.argmin(axis=0)[d]: the first row whose effect is nearest to vec[d]
NearestRow(table, x) ==
    CHOOSE r \in 1..Len(table) :
        /\ \A q \in 1..Len(table) : Abs(x - table[r][2]) <= Abs(x - table[q][2])
        /\ \A q \in 1..(r - 1) : Abs(x - table[q][2]) # Abs(x - table[r][2])

\* The swarm branch computes costs and never assigns min_idx, so its return
\* statement raises UnboundLocalError (when no earlier line of the branch has
\* raised: tile of a None neighbor state does).
PolicyResult(a, state, goal, table, swarm) ==
    IF swarm
    THEN [ok |-> FALSE,
          err |-> IF SwarmFails(a) THEN "TypeError" ELSE "UnboundLocalError",
          action |-> <<>>]
    ELSE LET vec == Sub(goal, state)
         IN  [ok |-> TRUE, err |-> "",
              action |-> <<table[NearestRow(table, vec[1])][1],
                           table[NearestRow(table, vec[2])][1]>>]

OptimalPolicy(a, state, goal, table, swarm) ==
    /\ pc = "idle"
    /\ ret' = [op |-> "optimal_policy", agent |-> a, state |-> state, goal |-> goal,
               table |-> table, swarm |-> swarm]
              @@ PolicyResult(a, state, goal, table, swarm)
    /\ UNCHANGED <<seed, trained, scalers, params, cached, neighbors, np_rng, pc, tr, plan, split, shp, scl>>

(***************************************************************************)
(* Calls of forward with operands of a given shape                         *)
(***************************************************************************)
MaxDim == 3          \* state_dim and action_dim are drawn from 1..MaxDim
MaxBatch == 3        \* the batch size is drawn from 0..MaxBatch

\* forward on a network built for (sd, ad): batched operands of n rows, or
\* one 1-D state and one 1-D action
Forward(sd, ad, n, batched) ==
    /\ pc = "idle"
    /\ LET state == IF batched THEN <<n, sd>> ELSE <<sd>>
           action == IF batched THEN <<n, ad>> ELSE <<ad>>
       IN  shp' = [op |-> "forward", sd |-> sd, ad |-> ad, batched |-> batched,
                   state |-> state, action |-> action,
                   out |-> ForwardShape(sd, ad, state, action)]
    /\ UNCHANGED <<seed, trained, scalers, params, cached, neighbors, np_rng, pc, tr, plan, ret, split, scl>>

(***************************************************************************)
(* StandardScaler: set_scalers, get_scaled, inverse_transform              *)
(***************************************************************************)
\* The scaled values are rationals num/den with den > 0, computed exactly.
Rat(n) == [num |-> n, den |-> 1]
RAdd(x, y) == [num |-> x.num * y.den + y.num * x.den, den |-> x.den * y.den]
RSub(x, y) == [num |-> x.num * y.den - y.num * x.den, den |-> x.den * y.den]
RMul(x, y) == [num |-> x.num * y.num, den |-> x.den * y.den]
\* x / y for y > 0
RDiv(x, y) == [num |-> x.num * y.den, den |-> x.den * y.num]
REq(x, y) == x.num * y.den = y.num * x.den

MaxFit == 2          \* number of rows of the largest batch the scalers are fitted on

ISqrt(v) == CHOOSE r \in 0..v : r * r <= v /\ v < (r + 1) * (r + 1)

Column(batch, c) == [k \in 1..Len(batch) |-> batch[k][c]]

\* np.append(states, actions, axis=-1)
AppendColumns(states, actions) == [k \in 1..Len(states) |-> states[k] \o actions[k]]

\* StandardScaler().fit on one column: mean_ = sum / n and scale_ = sqrt(var_),
\* with var_ = (n * sumsq - sum^2) / n^2 and the square root rounded down; a
\* scale_ of 0 (a constant column) is replaced by 1
FitColumn(col) ==
    LET n == Len(col)
        sum == SumSeq(col)
        sumsq == SumSeq([k \in 1..n |-> col[k] * col[k]])
        root == ISqrt(n * sumsq - sum * sum)
    IN  [mean |-> [num |-> sum, den |-> n],
         scale |-> IF root = 0 THEN Rat(1) ELSE [num |-> root, den |-> n]]

Fit(batch) == [c \in 1..Len(batch[1]) |-> FitColumn(Column(batch, c))]

\* scaler.transform: (x - mean_) / scale_
Transform(sc, batch) ==
    [k \in 1..Len(batch) |->
        [c \in 1..Len(batch[k]) |-> RDiv(RSub(Rat(batch[k][c]), sc[c].mean), sc[c].scale)]]

\* the variant x * scale_, which forgets to add the mean back
InverseTransformNoMean(sc, batch) ==
    [k \in 1..Len(batch) |->
        [c \in 1..Len(batch[k]) |-> RMul(batch[k][c], sc[c].scale)]]

\* scaler.inverse_transform: x * scale_ + mean_
InverseTransform(sc, batch) ==
    [k \in 1..Len(batch) |->
        [c \in 1..Len(batch[k]) |-> RAdd(RMul(batch[k][c], sc[c].scale), sc[c].mean)]]

\* self.model.output_scaler
OutputScalerOf(s) == s.output

\* set_scalers(states, actions, next_states)
FitScalers(states, actions, next_states) ==
    /\ scl' = [op |-> "set_scalers",
               input |-> Fit(AppendColumns(states, actions)),
               output |-> Fit(next_states)]
    /\ UNCHANGED <<seed, trained, scalers, params, cached, neighbors, np_rng, pc, tr, plan, ret, split, shp>>

\* get_scaled(next_states): the one-argument branch
ScaleOutput(x) ==
    /\ scl.op # "none"
    /\ scl' = [op |-> "get_scaled", input |-> scl.input, output |-> scl.output,
               x |-> x, scaled |-> Transform(OutputScalerOf(scl), x)]
    /\ UNCHANGED <<seed, trained, scalers, params, cached, neighbors, np_rng, pc, tr, plan, ret, split, shp>>

\* get_prediction's last step: output_scaler.inverse_transform(next_states_scaled)
UnscaleOutput ==
    /\ scl.op = "get_scaled"
    /\ scl' = [op |-> "inverse_transform", input |-> scl.input, output |-> scl.output,
               x |-> scl.x, scaled |-> scl.scaled,
               back |-> InverseTransform(OutputScalerOf(scl), scl.scaled)]
    /\ UNCHANGED <<seed, trained, scalers, params, cached, neighbors, np_rng, pc, tr, plan, ret, split, shp>>

Train(a) ==
    \E n \in DataSizes, b \in BatchSizes, e \in 0..MaxEpochs, c \in 0..MaxCorr, t \in NTests :
        TrainStart(a, n, b, e, c, t)

(***************************************************************************)
(* Specifications                                                          *)
(***************************************************************************)
\* The main program: one agent is constructed, its scalers are fitted, it is
\* trained, asked for predictions and for actions.
Next ==
    \/ \E a \in Live : SetScalers(a)
    \/ \E a \in Live, n \in {0, 1, 3} : GetScaled(a, n)
    \/ \E a \in Live, n \in {1, 3}, scale_input \in BOOLEAN : GetPrediction(a, n, scale_input)
    \/ NpRandomDraw
    \/ \E a \in Live : Train(a)
    \/ TrainBatch
    \/ TrainReturn
    \/ \E a \in Live : MpcStart(a, <<1, 1>>, <<0, 0>>, <<2, 2>>, 1, 1, FALSE, Weights(0))
    \/ MpcStep
    \/ MpcReturn
    \/ \E a \in Live, swarm \in BOOLEAN :
           OptimalPolicy(a, <<1, 1>>, <<2, 2>>, << <<-1, -1>>, <<0, 0>>, <<1, 1>> >>, swarm)

Spec == Init /\ [][Next]_vars

\* Agents loaded from a pickle (lines 397-399): trained, with fitted scalers.
InitLoaded ==
    /\ InitSwarm
    /\ \A a \in Agents : seed[a] = 1
    /\ np_rng = 0

Loaded ==
    /\ trained' = [a \in Live |-> TRUE]
    /\ scalers' = [a \in Live |-> TRUE]
    /\ params' = [a \in Live |-> 1]
    /\ UNCHANGED <<seed, cached, neighbors, np_rng, pc, tr, plan, ret, split, shp, scl>>

StepCounts == {1, 2}         \* n_steps
SampleCounts == {1, 2}       \* n_samples
PlanStates == {<<0, 0>>, <<1, 1>>}
PlanLines == {<< <<0, 0>>, <<2, 2>> >>, << <<2, 2>>, <<2, 2>> >>}

\* Agent 1 plans with every input and can have agent 2 as its neighbor;
\* agent 2 plans one step of one sample with the default weights.
NextPlan ==
    \/ (~scalers[1] /\ Loaded)
    \/ (scalers[1] /\ AddNeighbor(1, 2))
    \/ (scalers[1] /\ \E state \in PlanStates, line \in PlanLines,
            n_steps \in StepCounts, n_samples \in SampleCounts,
            swarm \in BOOLEAN, g \in {0, 1} :
                MpcStart(1, state, line[1], line[2], n_steps, n_samples, swarm, Weights(g)))
    \/ (scalers[1] /\ \E state \in PlanStates, line \in PlanLines :
                MpcStart(2, state, line[1], line[2], 1, 1, FALSE, Weights(0)))
    \/ MpcStep
    \/ MpcReturn

SpecPlan == InitLoaded /\ [][NextPlan]_vars

\* The baseline controller, for agents that may be neighbors and may have
\* planned before.
NextPolicy ==
    \/ \E a, b \in Live : AddNeighbor(a, b)
    \/ \E a \in Live : SetScalers(a)
    \/ \E a \in Live : MpcStart(a, <<1, 1>>, <<0, 0>>, <<2, 2>>, 1, 1, FALSE, Weights(0))
    \/ MpcStep
    \/ MpcReturn
    \/ \E a \in Live, state \in PlanStates, goal \in PlanStates, table \in Tables,
            swarm \in BOOLEAN : OptimalPolicy(a, state, goal, table, swarm)

SpecPolicy == InitLoaded /\ [][NextPolicy]_vars

\* forward on operands of every small shape
NextShape ==
    \E sd \in 1..MaxDim, ad \in 1..MaxDim, n \in 0..MaxBatch, batched \in BOOLEAN :
        Forward(sd, ad, n, batched)

SpecShape == Init /\ [][NextShape]_vars

\* Two agents train on the same dataset, between draws from numpy's
\* generator and planning calls of the second.
NextSplit ==
    \/ \E a \in Live : SetScalers(a)
    \/ NpRandomDraw
    \/ \E a \in Live, e \in {0, 1} : TrainStart(a, MaxData, 32, e, 0, 2)
    \/ TrainBatch
    \/ TrainReturn
    \/ MpcStart(2, <<1, 1>>, <<0, 0>>, <<2, 2>>, 1, 1, FALSE, Weights(0))
    \/ MpcStep
    \/ MpcReturn

SpecSplit == InitSwarm /\ [][NextSplit]_vars

\* Scaling: the scalers are fitted on a dataset, then batches of next states
\* are scaled and unscaled.
ScaleRows == {<<0, 0>>, <<0, 3>>, <<1, 1>>, <<3, 1>>}
FitData == UNION {[1..n -> ScaleRows] : n \in 1..MaxFit}
ScaleBatches == UNION {[1..n -> {<<0, 3>>, <<2, 1>>}] : n \in 1..2}

NextScale ==
    \/ \E next_states \in FitData, still \in BOOLEAN :
           FitScalers(IF still THEN [k \in 1..Len(next_states) |-> <<1, 1>>] ELSE next_states,
                      [k \in 1..Len(next_states) |-> <<k>>], next_states)
    \/ \E x \in ScaleBatches : ScaleOutput(x)
    \/ UnscaleOutput

SpecScale == Init /\ [][NextScale]_vars

(***************************************************************************)
(* The claims                                                              *)
(***************************************************************************)
CeilDiv(x, y) == (x + y - 1) \div y

\* the loop of the mpc_action call in progress has ended: line 176 is next
PlanDone == pc = "mpc" /\ plan.i = plan.n_steps

\* the loops of the train call in progress have ended: line 260 is next
TrainDone == pc = "train" /\ tr.ep = tr.epochs

\* total x is a better (smaller) sum than y; a sum that is not a number is
\* worse than every sum that is one
BetterTotal(x, y) == x # NaN /\ (y = NaN \/ x < y)

\* C1: mpc_action returns the step-0 action of a sample whose costs, summed
\* over the n_steps steps, are minimal among the n_samples samples.
C1_ReturnsMinimalTotal ==
    PlanDone =>
        LET t == Totals(plan.all_losses, plan.n_samples)
        IN  \E k \in 1..plan.n_samples :
                /\ ReturnedAction(plan) = plan.all_actions[1][k]
                /\ \A j \in 1..plan.n_samples : ~BetterTotal(t[j], t[k])

\* C2: the trained flag of a model is true only if at least one update was
\* executed on the model (so never after a train call with epochs = 0 on a
\* fresh model), whatever calls were made.
C2_TrainedOnlyAfterUpdate ==
    \A a \in Live : trained[a] => params[a] > 0

\* C3: in the first correction round of a batch of B examples, the extra
\* update is restricted to the floor(B/10) examples of highest loss, and
\* when B < 10 the round is a no-op: no update (the parameters stay) and the
\* running per-example loss is left as it was.
C3_CorrectionSubset ==
    (pc = "train" /\ tr.rounds # <<>>) =>
        LET r == tr.rounds[1]
            B == Len(tr.swept[Len(tr.swept)])
            chosen == {r.given[m] : m \in 1..Len(r.given)} \cap
                      {ExampleLoss(r.before - 1, e) : e \in Range(r.worst)}
        IN  /\ Len(r.worst) = B \div 10
            /\ \A x \in Range(r.given) : x \notin chosen => \A y \in chosen : x < y
            /\ B < 10 => (r.after = r.before /\ r.loss = r.given)

\* the global batch indices below n at which the held-out loss is measured
CheckpointsBelow(n, interval) == {i \in 0..(n - 1) : i % interval = 0}

IsIncreasing(q) == \A m \in 1..(Len(q) - 1) : q[m] < q[m + 1]

\* C4: with total = epochs * n_batches and interval = max(1, total div
\* n_tests), the held-out loss is measured exactly at the batch indices i
\* with i mod interval = 0: after i batches test_idx lists, in increasing
\* order, those indices below i, and test_losses has one loss for each; the
\* lists train returns are those of all the total batches.
C4_Checkpoints ==
    /\ pc = "train" =>
        LET total == tr.epochs * CeilDiv(Len(tr.train), tr.batch_size)
            t == total \div tr.n_tests
            interval == IF t > 1 THEN t ELSE 1
        IN  /\ Range(tr.test_idx) = CheckpointsBelow(tr.i, interval)
            /\ IsIncreasing(tr.test_idx)
            /\ Len(tr.test_losses) = Len(tr.test_idx)
            /\ tr.i <= total
            /\ TrainDone => tr.i = total
    /\ (ret.op = "train" /\ ret.ok) =>
        LET total == ret.epochs * CeilDiv(ret.n_train, ret.batch_size)
            t == total \div ret.n_tests
            interval == IF t > 1 THEN t ELSE 1
        IN  /\ Range(ret.test_idx) = CheckpointsBelow(total, interval)
            /\ IsIncreasing(ret.test_idx)
            /\ Len(ret.test_losses) = Len(ret.test_idx)

\* the train call in progress has measured the held-out loss more than once
\* and has also passed batches without measuring it
C4_Witness ==
    /\ TrainDone
    /\ Len(tr.test_idx) >= 2
    /\ Len(tr.test_idx) < tr.i

RECURSIVE Flatten(_)
Flatten(q) == IF q = <<>> THEN <<>> ELSE Head(q) \o Flatten(Tail(q))

\* C5: every epoch sweeps ceil(N/b) batches that are consecutive and
\* disjoint and together cover the shuffled training partition, each of b
\* examples except possibly a shorter last one, and training_losses holds
\* one value per batch: epochs * ceil(N/b) values when train returns,
\* whatever correction_iters is.
C5_Batches ==
    /\ pc = "train" =>
        LET N == Len(tr.train)
            nb == CeilDiv(N, tr.batch_size)
            done == Len(tr.swept)
        IN  /\ Cardinality(Range(tr.train)) = N
            /\ Range(tr.train) = Range(split[tr.agent].train)
            /\ Len(tr.training_losses) = tr.i
            /\ tr.i = tr.ep * nb + tr.j
            /\ tr.i > 0 => done = (IF tr.j = 0 THEN nb ELSE tr.j)
            /\ \A m \in 1..done :
                   /\ Len(tr.swept[m]) >= 1
                   /\ Len(tr.swept[m]) <= tr.batch_size
                   /\ m < nb => Len(tr.swept[m]) = tr.batch_size
            /\ Flatten(tr.swept) = SubSeq(tr.train, 1, Len(Flatten(tr.swept)))
            /\ done = nb => Flatten(tr.swept) = tr.train
    /\ (ret.op = "train" /\ ret.ok) =>
        Len(ret.training_losses) = ret.epochs * CeilDiv(ret.n_train, ret.batch_size)

\* two epochs of several batches, the last one short, with correction rounds
C5_Witness ==
    /\ TrainDone
    /\ tr.epochs = 2
    /\ tr.correction_iters > 0
    /\ Len(tr.swept) >= 3
    /\ Len(tr.swept[Len(tr.swept)]) < tr.batch_size

\* C6: when init equals goal no NaN (or infinity) of a division by the zero
\* norm reaches the accumulated costs, whatever the weights.
C6_NoNaNWhenInitIsGoal ==
    (pc = "mpc" /\ plan.init = plan.goal) =>
        \A i \in 1..Len(plan.all_losses) : \A k \in 1..plan.n_samples :
            IsNum(plan.all_losses[i][k])

\* C7: get_scaled, get_prediction and train on an agent whose scalers were
\* never fitted fail, and leave the parameters, the trained flag and the
\* cached state as they were before the call.
C7_FailsFastWithoutScalers ==
    (ret.op \in {"get_scaled", "get_prediction", "train"} /\ ~ret.fitted) =>
        /\ ~ret.ok
        /\ Snapshot(ret.agent) = ret.pre

\* C8: optimal_policy returns a table action in both modes and does not end
\* in an error; without swarm it is, per state dimension, the action of the
\* row whose effect is nearest to goal - state.
C8_PolicyReturnsTableAction ==
    ret.op = "optimal_policy" =>
        /\ ret.ok
        /\ \A d \in 1..Len(ret.action) :
               \E r \in 1..Len(ret.table) :
                   /\ ret.action[d] = ret.table[r][1]
                   /\ ~ret.swarm =>
                          \A q \in 1..Len(ret.table) :
                              Abs((ret.goal[d] - ret.state[d]) - ret.table[r][2])
                                  <= Abs((ret.goal[d] - ret.state[d]) - ret.table[q][2])

\* C9: forward on a batch of N states and N actions returns N predictions of
\* width state_dim, and on one 1-D state and one 1-D action one prediction
\* of width state_dim.
C9_ForwardShape ==
    shp.op = "forward" =>
        /\ shp.out.ok
        /\ shp.out.shape = <<IF shp.batched THEN shp.state[1] ELSE 1, shp.sd>>

\* a partition of 1..n that holds out a tenth of it (rounded up)
IsPartition(s) ==
    /\ Range(s.test) \cap Range(s.train) = {}
    /\ Range(s.test) \cup Range(s.train) = 1..s.n
    /\ Len(s.test) + Len(s.train) = s.n
    /\ Len(s.test) = CeilDiv(s.n, 10)

\* C10: a train call on a dataset by an agent produces the partition that
\* the last train call on the same dataset by any agent of the same seed
\* produced, whatever ran in between; the partition is disjoint, covers the
\* dataset and holds out 10% of it.
C10_SplitKeyedBySeed ==
    [][\A a \in Live : \A b \in Live :
          (split'[b] # split[b] \/ (pc = "idle" /\ pc' = "train" /\ tr'.agent = b)) =>
              /\ IsPartition(split'[b])
              /\ (seed[a] = seed[b] /\ split[a].n = split'[b].n) => split'[b] = split[a]]_vars

\* both agents have the same seed and have split the same dataset, one of
\* them after the other was trained and after it had planned itself
C10_Witness ==
    \E a \in Live : \E b \in Live \ {a} :
        /\ seed[a] = seed[b]
        /\ split[a].n # 0
        /\ split[a].n = split[b].n
        /\ trained[a]
        /\ params[a] > 0
        /\ cached[b] # <<>>
        /\ pc = "train"
        /\ tr.agent = b

\* C11: after set_scalers, the output scaling of a batch of next states
\* followed by the inverse output transform of get_prediction gives back the
\* batch, element by element.
C11_ScaleRoundTrip ==
    scl.op = "inverse_transform" =>
        \A k \in 1..Len(scl.x) : \A c \in 1..Len(scl.x[k]) :
            REq(scl.back[k][c], Rat(scl.x[k][c]))

\* a batch of two rows went through scalers that have a constant column
\* (scale_ replaced by 1) and a column of scale_ other than 1, and whose input
\* statistics differ from the output statistics
C11_Witness ==
    /\ scl.op = "inverse_transform"
    /\ Len(scl.x) = 2
    /\ scl.x[1] # scl.x[2]
    /\ scl.output[1].scale = Rat(1)
    /\ scl.output[2].scale.num > 1
    /\ scl.input[2] # scl.output[2]
    /\ \E k \in 1..2 : scl.scaled[k][2].num # scl.x[k][2] * scl.scaled[k][2].den

\* C12: in a train call with correction_iters >= 2, every correction round
\* of a batch (of at least 20 examples, so that the subset has several) ranks
\* a loss that has one entry per example of the batch, the entry of an
\* example being a loss of that example, and the round chooses the examples
\* at the positions of the largest entries.
C12_EveryRoundRanksTheBatch ==
    (pc = "train" /\ tr.correction_iters >= 2 /\ tr.rounds # <<>>) =>
        LET batch == tr.swept[Len(tr.swept)]
            B == Len(batch)
        IN  WorstCount(B) >= 2 =>
                \A m \in 1..Len(tr.rounds) :
                    LET r == tr.rounds[m]
                    IN  /\ Len(r.given) = B
                        /\ \E q \in 0..r.before :
                               \A j \in 1..B : r.given[j] = ExampleLoss(q, batch[j])
                        /\ Len(r.worst) = WorstCount(B)
                        /\ \A i \in 1..B : \A j \in 1..B :
                               (batch[i] \in Range(r.worst) /\ batch[j] \notin Range(r.worst))
                                   => r.given[j] < r.given[i]

InStateRange(p) ==
    \A d \in 1..Len(p) : StateRange[1] <= p[d] /\ p[d] <= StateRange[2]

InActionRange(u) ==
    /\ Len(u) = ActionDim
    /\ \A d \in 1..Len(u) : ActionRange[1] <= u[d] /\ u[d] <= ActionRange[2]

\* C14: every action sampled by mpc_action has action_dim components within
\* action_range, the steps of the rollout leave the sampled actions as they
\* were drawn, and the action returned is one of those sampled for step 0.
C14_ActionsWithinBounds ==
    /\ [](pc = "mpc" =>
            \A t \in 1..plan.n_steps : \A k \in 1..plan.n_samples :
                InActionRange(plan.all_actions[t][k]))
    /\ []((ret.op = "mpc_action" /\ ret.ok) => InActionRange(ret.action))
    /\ [][(pc = "mpc" /\ pc' = "mpc") => plan'.all_actions = plan.all_actions]_vars
    /\ [][(pc = "mpc" /\ pc' = "idle" /\ ret'.ok) =>
            \E k \in 1..plan.n_samples : ret'.action = plan.all_actions[1][k]]_vars

\* the rollout of a plan of two steps and two samples is complete, and the
\* samples of its first step differ
C14_Witness ==
    /\ PlanDone
    /\ plan.n_steps = 2
    /\ plan.n_samples = 2
    /\ plan.all_actions[1][1] # plan.all_actions[1][2]
    /\ plan.all_actions[1] # plan.all_actions[2]

SwarmTermFrom(others, nb, states, goal, k) ==
    LET near == FDiv(SumOver(nb, [b \in nb |-> Norm(Sub(states[k], others[b]))]),
                     Cardinality(nb))
        goal_term == [j \in 1..Len(states) |-> Norm(Sub(goal, states[j]))]
    IN  FDiv(FMul(near, Mean(goal_term)), Norm(goal))

\* C16: no agent has a cached state before it plans; a cached state changes
\* only when its own agent starts a planning call, to the state argument of
\* that call; the steps of a planning call, with or without swarm cost,
\* leave every other agent's cached state, every neighbor list and all the
\* parameters as they are; and the swarm cost of a step is computed from the
\* cached state of each neighbor.
C16_CachedStateIsLastPlanned ==
    /\ (\A a \in Live : cached[a] = <<>>)
    /\ [][(pc = "idle" /\ pc' = "mpc") => cached'[plan'.agent] = plan'.state]_vars
    /\ [][\A a \in Live :
            cached'[a] # cached[a] => (pc = "idle" /\ pc' = "mpc" /\ plan'.agent = a)]_vars
    /\ [][(pc' = "mpc" \/ pc = "mpc") => (neighbors' = neighbors /\ params' = params)]_vars
    /\ [](pc = "mpc" =>
            /\ cached[plan.agent] = plan.state
            /\ \A b \in Live \ {plan.agent} : cached[b] = plan.others[b]
            /\ (plan.swarm /\ neighbors[plan.agent] # {}) =>
                   \A t \in 1..plan.i : \A k \in 1..plan.n_samples :
                       plan.all_losses[t][k] =
                           FAdd(StepLoss(plan.agent, plan.used[t], k, plan.init, plan.goal,
                                         FALSE, plan.w),
                                FMul(plan.w.swarm,
                                     SwarmTermFrom(plan.others, neighbors[plan.agent],
                                                   plan.used[t], plan.goal, k))))

\* agent 1 has planned, then its neighbor at another state, and agent 1 is
\* now at the end of a second plan, from a new state and with the swarm cost
C16_Witness ==
    /\ PlanDone
    /\ plan.agent = 1
    /\ plan.swarm
    /\ neighbors[1] = {2}
    /\ plan.pre.cached # <<>>
    /\ plan.pre.cached # plan.state
    /\ cached[2] # <<>>
    /\ cached[2] # cached[1]
    /\ \E k \in 1..plan.n_samples : IsNum(plan.all_losses[1][k])

\* C17: in the training flow (scalers fitted, data scaled, train on the
\* scaled data) every held-out evaluation compares a prediction and a target
\* in the same units.
C17_EvaluationInSameUnits ==
    (pc = "train" /\ tr.fitted) =>
        \A m \in 1..Len(tr.eval_units) : tr.eval_units[m].pred = tr.eval_units[m].target

====
